---- MODULE Spec2Model ----
(***************************************************************************)
(* Connection core of lib/Socket/socket.js (makeSocket): tag generation,   *)
(* the frame send path, the two waiting primitives, query, the handshake   *)
(* driver validateConnection and the keep-alive interval, run on a single  *)
(* threaded event loop against a transport that emits frame / TAG:<id> /   *)
(* close / error events and completes sends asynchronously.                *)
(*                                                                         *)
(* One action is one event-loop task together with the promise            *)
(* continuations (microtasks) it triggers.                                 *)
(***************************************************************************)
EXTENDS Integers, Sequences, FiniteSets, TLC

\* ------------------------------------------------------------------ bounds
MaxWaits == 2      \* waits started (waitForMessage + awaitNextMessage)
MaxSends == 3      \* sendRawMessage calls
MaxCalls == 1      \* direct sendNode / awaitNextMessage calls of a caller
MaxTimeout == 1    \* largest timeout, in clock ticks

VARIABLES
    wsState,     \* transport: "connecting" | "open" | "closed"
    config,      \* [connectTimeoutMs, defaultQueryTimeoutMs]
    setup,       \* makeSocket's URL preparation and transport selection
    epoch,       \* counter behind generateMessageTag
    listeners,   \* the transport's listener table: set of [ev, w]
    waits,       \* promises of waitForMessage / awaitNextMessage, in call order
    sends,       \* sendRawMessage calls, in call order
    queries,     \* query calls, in call order
    hs,          \* validateConnection: [pc, w, s, err]
    noise,       \* handshake engine: [processed, finished]
    keepAlive    \* intervals started by startKeepAliveRequest and not cleared

vars == <<wsState, config, setup, epoch, listeners, waits, sends, queries,
          hs, noise, keepAlive>>

\* ------------------------------------------------------------------ values
NoId == [p |-> "", n |-> 0]
UserIds == {[p |-> "user", n |-> 0]}          \* ids a caller puts in node.attrs.id
Val(k, id) == [k |-> k, id |-> id]
Err(k) == Val(k, NoId)
NoArg == Err("none")                           \* an event emitted without argument
CloseArgs == {NoArg, Err("EOF")}               \* argument of the 'close' event
ErrorArgs == {Err("ECONNRESET")}               \* argument of the 'error' event
RawFrames == {Err("serverHello"), Err("malformed"), Err("badKey")}
Nodes(id) == {Val("node", id), Val("errnode", id)}

Ev(name, id) == [name |-> name, id |-> id]
On(ev, w) == [ev |-> ev, w |-> w]

\* const uqTagId = generateMdTagPrefix()
uqTagId == "3EB0."

isOpen == wsState = "open"

\* ------------------------------------------------------------------ tags
\* fault: the counter is read but not advanced
EpochAfterTagStuck(e) == e
\* generateMessageTag: `${uqTagId}${epoch++}`, the tag and the counter after it
generateMessageTag(e) == [p |-> uqTagId, n |-> e]
EpochAfterTag(e) == e + 1

\* ------------------------------------------------------------------ waits
\* promiseTimeout(ms, executor): a pending promise raced against a deadline.
promiseTimeout(kind, id, ms) ==
    [kind |-> kind, id |-> id, state |-> "pending", val |-> NoArg,
     timeout |-> ms, timer |-> 0, unhandled |-> FALSE]
promiseTimeoutExpired(p) == p.timer >= p.timeout

\* fault: the tagged wait listens on the raw frame event
TagEventFrame(msgId) == Ev("frame", NoId)
\* the event a tagged wait listens on for its response
TagEvent(msgId) == Ev("TAG", msgId)

\* fault: the TAG listener is not in place when waitForMessage returns
waitForMessageOnNoTag(L, w, msgId) == L \cup {On(Ev("close", NoId), w)}
\* waitForMessage: listeners in place once the executor has run
waitForMessageOn(L, w, msgId) ==
    (L \cup {On(TagEvent(msgId), w), On(Ev("close", NoId), w)})
       \ {On(Ev("error", NoId), w)}
\* fault: the finally block leaves the TAG listener in place
waitForMessageOffNoTag(w, msgId) ==
    {On(Ev("close", NoId), w), On(Ev("error", NoId), w)}
\* waitForMessage: listeners the finally block removes
waitForMessageOff(w, msgId) ==
    {On(TagEvent(msgId), w), On(Ev("close", NoId), w), On(Ev("error", NoId), w)}

\* fault: awaitNextMessage registers no close listener
awaitNextMessageOnNoClose(L, w) ==
    L \cup {On(Ev("frame", NoId), w), On(Ev("error", NoId), w)}
\* awaitNextMessage: listeners in place once the executor has run
awaitNextMessageOn(L, w) ==
    L \cup {On(Ev("frame", NoId), w), On(Ev("close", NoId), w),
            On(Ev("error", NoId), w)}
\* fault: the .finally leaves the error listener in place
awaitNextMessageOffNoError(w) ==
    {On(Ev("frame", NoId), w), On(Ev("close", NoId), w)}
\* awaitNextMessage: listeners the .finally removes
awaitNextMessageOff(w) ==
    {On(Ev("frame", NoId), w), On(Ev("close", NoId), w), On(Ev("error", NoId), w)}

\* onErr of waitForMessage: reject(err || Boom('Connection Closed'))
onErr(arg) == IF arg = NoArg THEN Err("ConnectionClosed") ELSE arg
\* mapWebSocketError(reject): the failure a raw wait is rejected with
mapWebSocketError(arg) == Err("ConnectionClosed")

\* what the listener of wait w does when event `name` fires with `arg`
Callback(W, w, name, arg) ==
    IF name \in {"frame", "TAG"} THEN [state |-> "resolved", val |-> arg]
    ELSE IF W[w].kind = "tag" THEN [state |-> "rejected", val |-> onErr(arg)]
    ELSE [state |-> "rejected", val |-> mapWebSocketError(arg)]

\* listeners removed when wait w settles
Off(W, w) ==
    IF W[w].kind = "tag" THEN waitForMessageOff(w, W[w].id)
    ELSE awaitNextMessageOff(w)

\* waits whose listener for ev is registered
Listening(L, ev) == {l.w : l \in {x \in L : x.ev = ev}}

\* somebody is suspended on wait w: validateConnection and the callers of
\* awaitNextMessage await it from the start, query only once `await sendNode`
\* has returned
Awaited(W, w) ==
    \/ W[w].kind = "raw"
    \/ \E q \in DOMAIN queries :
          queries[q].w = w /\ sends[queries[q].s].state = "ok"

\* emit(ev, arg) on the transport: every registered listener runs; a promise
\* settles at most once; the settled waits' cleanup runs before the next task
EmitWaits(W, L, ev, arg) ==
    [i \in DOMAIN W |->
        IF i \in Listening(L, ev) /\ W[i].state = "pending"
        THEN [W[i] EXCEPT !.state = Callback(W, i, ev.name, arg).state,
                          !.val = Callback(W, i, ev.name, arg).val,
                          !.timer = 0,
                          !.unhandled = Callback(W, i, ev.name, arg).state = "rejected"
                                        /\ ~Awaited(W, i)]
        ELSE W[i]]
Cleanup(W, W1, L) ==
    L \ UNION {Off(W, i) : i \in {j \in DOMAIN W :
                                     W[j].state = "pending" /\ W1[j].state # "pending"}}

\* ------------------------------------------------------------------ sends
\* fault: sendRawMessage without its isOpen guard
sendRawMessageUnchecked(kind, w) ==
    [kind |-> kind, w |-> w, state |-> "inflight", err |-> "none",
     handed |-> TRUE, timeout |-> config.connectTimeoutMs, timer |-> 0]
\* fault: sendNode writes to the transport itself
sendNodeUnchecked(kind) == sendRawMessageUnchecked(kind, 0)
\* sendRawMessage(data): kind names the bytes, w the raw wait whose onClose
\* catches a failure of this send (0: none)
sendRawMessage(kind, w) ==
    IF ~isOpen
    THEN [kind |-> kind, w |-> w, state |-> "rejected", err |-> "ConnectionClosed",
          handed |-> FALSE, timeout |-> 0, timer |-> 0]
    ELSE [kind |-> kind, w |-> w, state |-> "inflight", err |-> "none",
          handed |-> TRUE, timeout |-> config.connectTimeoutMs, timer |-> 0]

\* sendNode(frame): encodeBinaryNode, then sendRawMessage
sendNode(kind) == sendRawMessage(kind, 0)

\* sends still reserved for a handshake under way (its client-finish)
FreeSends == MaxSends - Len(sends) - (IF hs.pc = "HelloSent" THEN 1 ELSE 0)
FreeWaits == MaxWaits - Len(waits)
\* calls a caller made directly: sendNode(node) and awaitNextMessage(sendMsg)
DirectSends == {s \in DOMAIN sends : sends[s].kind = "app"
                                      /\ \A q \in DOMAIN queries : queries[q].s # s}
DirectWaits == {w \in DOMAIN waits : waits[w].kind = "raw" /\ hs.w # w}
FreeCalls == MaxCalls - Cardinality(DirectSends) - Cardinality(DirectWaits)

\* ------------------------------------------------------------------ handshake
\* fault: the server-hello is used without decode / processHandshake failing
ServerHelloAcceptedAny(p) == p.state = "resolved"
\* validateConnection goes on past `await awaitNextMessage(init)`, decode and
\* noise.processHandshake only with a server-hello both of them accept
ServerHelloAccepted(p) ==
    p.state = "resolved" /\ p.val.k \notin {"malformed", "badKey"}
\* the failure validateConnection ends with otherwise
ServerHelloFailure(p) ==
    IF p.state = "rejected" THEN p.val.k
    ELSE IF p.val.k = "malformed" THEN "DecodeFailure" ELSE "HandshakeFailure"

\* fault: startKeepAliveRequest is called as soon as the server-hello has been
\* processed, without awaiting the client-finish send and finishInit
CommitKeepAliveEarly(W, L, S) ==
    IF hs.pc = "HelloSent" /\ W[hs.w].state # "pending"
    THEN IF ServerHelloAccepted(W[hs.w])
         THEN LET fin == sendRawMessage("finish", 0) IN
              /\ noise' = [noise EXCEPT !.processed = TRUE]
              /\ sends' = Append(S, fin)
              /\ hs' = IF fin.state = "rejected"
                       THEN [hs EXCEPT !.pc = "Failed", !.err = fin.err]
                       ELSE [hs EXCEPT !.pc = "ServerHelloReceived",
                                       !.s = Len(S) + 1]
              /\ waits' = W /\ listeners' = L
              /\ keepAlive' = keepAlive + 1
         ELSE /\ hs' = [hs EXCEPT !.pc = "Failed",
                                  !.err = ServerHelloFailure(W[hs.w])]
              /\ waits' = W /\ listeners' = L /\ sends' = S
              /\ UNCHANGED <<noise, keepAlive>>
    ELSE IF hs.pc = "ServerHelloReceived" /\ S[hs.s].state # "inflight"
    THEN IF S[hs.s].state = "rejected"
         THEN /\ hs' = [hs EXCEPT !.pc = "Failed", !.err = S[hs.s].err]
              /\ waits' = W /\ listeners' = L /\ sends' = S
              /\ UNCHANGED <<noise, keepAlive>>
         ELSE /\ noise' = [noise EXCEPT !.finished = TRUE]
              /\ hs' = [hs EXCEPT !.pc = "Finished"]
              /\ waits' = W /\ listeners' = L /\ sends' = S
              /\ UNCHANGED keepAlive
    ELSE /\ waits' = W /\ listeners' = L /\ sends' = S
         /\ UNCHANGED <<hs, noise, keepAlive>>
\* validateConnection resumes when its awaited promise has settled:
\* after `await awaitNextMessage(init)` and after `await sendRawMessage(finish)`
Commit(W, L, S) ==
    IF hs.pc = "HelloSent" /\ W[hs.w].state # "pending"
    THEN IF ServerHelloAccepted(W[hs.w])
         THEN LET fin == sendRawMessage("finish", 0) IN
              /\ noise' = [noise EXCEPT !.processed = TRUE]
              /\ sends' = Append(S, fin)
              /\ hs' = IF fin.state = "rejected"
                       THEN [hs EXCEPT !.pc = "Failed", !.err = fin.err]
                       ELSE [hs EXCEPT !.pc = "ServerHelloReceived",
                                       !.s = Len(S) + 1]
              /\ waits' = W /\ listeners' = L
              /\ UNCHANGED keepAlive
         ELSE /\ hs' = [hs EXCEPT !.pc = "Failed",
                                  !.err = ServerHelloFailure(W[hs.w])]
              /\ waits' = W /\ listeners' = L /\ sends' = S
              /\ UNCHANGED <<noise, keepAlive>>
    ELSE IF hs.pc = "ServerHelloReceived" /\ S[hs.s].state # "inflight"
    THEN IF S[hs.s].state = "rejected"
         THEN /\ hs' = [hs EXCEPT !.pc = "Failed", !.err = S[hs.s].err]
              /\ waits' = W /\ listeners' = L /\ sends' = S
              /\ UNCHANGED <<noise, keepAlive>>
         ELSE /\ noise' = [noise EXCEPT !.finished = TRUE]
              /\ keepAlive' = keepAlive + 1
              /\ hs' = [hs EXCEPT !.pc = "Finished"]
              /\ waits' = W /\ listeners' = L /\ sends' = S
    ELSE /\ waits' = W /\ listeners' = L /\ sends' = S
         /\ UNCHANGED <<hs, noise, keepAlive>>

\* ------------------------------------------------------------------ setup
\* makeSocket reads waWebSocketUrl (a string or a URL), mobile, socket and
\* auth.creds.routingInfo from its configuration
Protocols == {"wss:", "ws:", "tcp:"}
Hosts == {"web.whatsapp.com", "MOBILE_ENDPOINT"}
Ports == {"443", "MOBILE_PORT"}
Searches == {<<>>, <<[k |-> "v", v |-> "2"]>>}
NoHint == "none"
RoutingInfos == {NoHint, "hint"}
NoSocket == "none"
Sockets == {NoSocket, "supplied"}
Urls(types) ==
    [type : types, protocol : Protocols, host : Hosts, port : Ports,
     search : Searches]
SetupConfigs ==
    [waWebSocketUrl : Urls({"string", "URL"}), mobile : BOOLEAN,
     socket : Sockets, routingInfo : RoutingInfos]
DefaultConfig ==
    [waWebSocketUrl |-> [type |-> "string", protocol |-> "wss:",
                         host |-> "web.whatsapp.com", port |-> "443",
                         search |-> <<>>],
     mobile |-> FALSE, socket |-> NoSocket, routingInfo |-> NoHint]

\* typeof waWebSocketUrl === 'string' ? new URL(waWebSocketUrl) : waWebSocketUrl
parseUrl(u) == IF u.type = "string" THEN [u EXCEPT !.type = "URL"] ELSE u
\* config.mobile = config.mobile || url.protocol === 'tcp:'
mobileFlag(mobile, url) == mobile \/ url.protocol = "tcp:"
\* new URL(`tcp://${MOBILE_ENDPOINT}:${MOBILE_PORT}`)
MobileUrl ==
    [type |-> "URL", protocol |-> "tcp:", host |-> "MOBILE_ENDPOINT",
     port |-> "MOBILE_PORT", search |-> <<>>]
\* fault: the configured URL is kept in mobile mode
mobileUrlKept(mobile, url) == url
\* if (config.mobile && url.protocol !== 'tcp:') url = <the mobile gateway>
mobileUrl(mobile, url) ==
    IF mobile /\ url.protocol # "tcp:" THEN MobileUrl ELSE url
\* routingInfo.toString('base64url')
base64url(h) == [base64url |-> h]
\* fault: the routing hint is never appended
routedUrlNever(mobile, url, routingInfo) == url
\* if (!config.mobile && url.protocol === 'wss:' && creds.routingInfo)
\*     url.searchParams.append('ED', routingInfo.toString('base64url'))
routedUrl(mobile, url, routingInfo) ==
    IF ~mobile /\ url.protocol = "wss:" /\ routingInfo # NoHint
    THEN [url EXCEPT !.search = Append(@, [k |-> "ED", v |-> base64url(routingInfo)])]
    ELSE url
\* a transport the caller supplied was not built from url
NoUrl == [type |-> "none", protocol |-> "", host |-> "", port |-> "", search |-> <<>>]
\* socket ? socket : mobile ? new MobileSocketClient(url, config)
\*                         : new WebSocketClient(url, config)
buildTransport(socket, mobile, url) ==
    IF socket # NoSocket THEN [client |-> socket, url |-> NoUrl]
    ELSE IF mobile THEN [client |-> "MobileSocketClient", url |-> url]
    ELSE [client |-> "WebSocketClient", url |-> url]

\* makeSocket(config) up to ws.connect()
makeSocket(cfg) ==
    LET url0 == parseUrl(cfg.waWebSocketUrl)
        mobile == mobileFlag(cfg.mobile, url0)
        url1 == mobileUrl(mobile, url0)
        url == routedUrl(mobile, url1, cfg.routingInfo)
    IN  [pc |-> "connected", given |-> cfg, mobile |-> mobile, url |-> url,
         ws |-> buildTransport(cfg.socket, mobile, url)]

\* ------------------------------------------------------------------ initial state
Init ==
    /\ wsState = "connecting"
    /\ config \in [connectTimeoutMs : 1..MaxTimeout,
                   defaultQueryTimeoutMs : {MaxTimeout}]
    /\ setup = makeSocket(DefaultConfig)
    /\ epoch = 1
    /\ listeners = {}
    /\ waits = <<>>
    /\ sends = <<>>
    /\ queries = <<>>
    /\ hs = [pc |-> "NotStarted", w |-> 0, s |-> 0, err |-> "none"]
    /\ noise = [processed |-> FALSE, finished |-> FALSE]
    /\ keepAlive = 0

\* ------------------------------------------------------------------ transport events
\* the transport finishes connecting
Open ==
    /\ wsState = "connecting"
    /\ wsState' = "open"
    /\ UNCHANGED <<config, setup, epoch, listeners, waits, sends, queries,
                   hs, noise, keepAlive>>

\* the transport emits `name` (with tag id for TAG events) and argument arg
Emit(name, id, arg) ==
    LET W1 == EmitWaits(waits, listeners, Ev(name, id), arg)
    IN  Commit(W1, Cleanup(waits, W1, listeners), sends)

Close(arg) ==
    /\ wsState # "closed"
    /\ wsState' = "closed"
    /\ Emit("close", NoId, arg)
    /\ UNCHANGED <<config, setup, epoch, queries>>

Error(arg) ==
    /\ wsState # "closed"
    /\ Emit("error", NoId, arg)
    /\ UNCHANGED <<wsState, config, setup, epoch, queries>>

Frame(f) ==
    /\ isOpen
    /\ Emit("frame", NoId, f)
    /\ UNCHANGED <<wsState, config, setup, epoch, queries>>

Tagged(id, node) ==
    /\ isOpen
    /\ Emit("TAG", id, node)
    /\ UNCHANGED <<wsState, config, setup, epoch, queries>>

\* ------------------------------------------------------------------ send completion
\* fault: awaitNextMessage sends its payload without .catch(onClose)
SettleSendNoCatch(s, st, err) ==
    LET S1 == [sends EXCEPT ![s].state = st, ![s].err = err,
                            ![s].timer = IF err = "Timeout" THEN @ ELSE 0]
    IN  Commit(waits, listeners, S1)
\* a send settles (promiseTimeout's finally cancels its timer); the failure of
\* a payload sent by awaitNextMessage reaches its wait through .catch(onClose)
SettleSend(s, st, err) ==
    LET S1 == [sends EXCEPT ![s].state = st, ![s].err = err,
                            ![s].timer = IF err = "Timeout" THEN @ ELSE 0]
        w  == sends[s].w
        W1 == IF st = "rejected" /\ w # 0 /\ waits[w].state = "pending"
              THEN [waits EXCEPT ![w].state = "rejected",
                                 ![w].val = mapWebSocketError(Err(err)),
                                 ![w].timer = 0]
              ELSE waits
    IN  Commit(W1, Cleanup(waits, W1, listeners), S1)

\* the transport calls back without error
SendDone(s) ==
    /\ s \in DOMAIN sends /\ sends[s].state = "inflight"
    /\ SettleSend(s, "ok", "none")
    /\ UNCHANGED <<wsState, config, setup, epoch, queries>>

\* the transport calls back with a write error
SendFail(s) ==
    /\ s \in DOMAIN sends /\ sends[s].state = "inflight"
    /\ SettleSend(s, "rejected", "SendFailure")
    /\ UNCHANGED <<wsState, config, setup, epoch, queries>>

\* fault: the transport send is awaited without a deadline
SendTimeoutNever(s) == FALSE /\ UNCHANGED vars
\* the deadline of sendRawMessage's promiseTimeout(connectTimeoutMs, ...) passes
SendTimeout(s) ==
    /\ s \in DOMAIN sends /\ sends[s].state = "inflight"
    /\ promiseTimeoutExpired(sends[s])
    /\ SettleSend(s, "rejected", "Timeout")
    /\ UNCHANGED <<wsState, config, setup, epoch, queries>>

\* the deadline of a wait's promiseTimeout passes
WaitTimeout(w) ==
    /\ w \in DOMAIN waits /\ waits[w].state = "pending"
    /\ promiseTimeoutExpired(waits[w])
    /\ LET W1 == [waits EXCEPT ![w].state = "rejected", ![w].val = Err("Timeout"),
                                ![w].unhandled = ~Awaited(waits, w)]
       IN  Commit(W1, Cleanup(waits, W1, listeners), sends)
    /\ UNCHANGED <<wsState, config, setup, epoch, queries>>

\* one unit of time passes on every running deadline timer; a timer that is
\* due fires before time moves on
Tick ==
    /\ \/ \E w \in DOMAIN waits : waits[w].state = "pending"
       \/ \E s \in DOMAIN sends : sends[s].state = "inflight"
    /\ \A w \in DOMAIN waits :
          waits[w].state = "pending" => ~promiseTimeoutExpired(waits[w])
    /\ \A s \in DOMAIN sends :
          sends[s].state = "inflight" => ~promiseTimeoutExpired(sends[s])
    /\ waits' = [w \in DOMAIN waits |->
                    IF waits[w].state = "pending"
                    THEN [waits[w] EXCEPT !.timer = @ + 1] ELSE waits[w]]
    /\ sends' = [s \in DOMAIN sends |->
                    IF sends[s].state = "inflight"
                    THEN [sends[s] EXCEPT !.timer = @ + 1] ELSE sends[s]]
    /\ UNCHANGED <<wsState, config, setup, epoch, listeners, queries, hs,
                   noise, keepAlive>>

\* ------------------------------------------------------------------ calls
\* waitForMessage(msgId, timeoutMs = defaultQueryTimeoutMs); timeoutMs = 0
\* stands for an omitted argument
waitForMessage(msgId, timeoutMs) ==
    promiseTimeout("tag", msgId,
                   IF timeoutMs = 0 THEN config.defaultQueryTimeoutMs ELSE timeoutMs)

\* query(node, timeoutMs) up to its first suspension; idArg = NoId: node.attrs.id unset
Query(idArg, timeoutMs) ==
    /\ FreeWaits >= 1 /\ FreeSends >= 1
    /\ LET msgId == IF idArg = NoId THEN generateMessageTag(epoch) ELSE idArg
           w == Len(waits) + 1
       IN  /\ epoch' = IF idArg = NoId THEN EpochAfterTag(epoch) ELSE epoch
           /\ waits' = Append(waits, waitForMessage(msgId, timeoutMs))
           /\ listeners' = waitForMessageOn(listeners, w, msgId)
           /\ sends' = Append(sends, sendNode("app"))
           /\ queries' = Append(queries, [id |-> msgId, gen |-> idArg = NoId,
                                          w |-> w, s |-> Len(sends) + 1])
    /\ UNCHANGED <<wsState, config, setup, hs, noise, keepAlive>>

\* a caller's sendNode(node)
SendNode ==
    /\ FreeSends >= 1 /\ FreeCalls >= 1
    /\ sends' = Append(sends, sendNode("app"))
    /\ UNCHANGED <<wsState, config, setup, epoch, listeners, waits, queries,
                   hs, noise, keepAlive>>

\* awaitNextMessage(sendMsg) up to its return; kind names the payload
awaitNextMessage(kind, hasMsg) ==
    LET w == Len(waits) + 1 IN
    IF ~isOpen
    THEN /\ waits' = Append(waits, [promiseTimeout("raw", NoId, 0) EXCEPT
                                       !.state = "rejected",
                                       !.val = Err("ConnectionClosed")])
         /\ UNCHANGED <<listeners, sends>>
    ELSE /\ waits' = Append(waits, promiseTimeout("raw", NoId, config.connectTimeoutMs))
         /\ listeners' = awaitNextMessageOn(listeners, w)
         /\ sends' = IF hasMsg THEN Append(sends, sendRawMessage(kind, w)) ELSE sends

\* a caller's awaitNextMessage(sendMsg)
AwaitNext(hasMsg) ==
    /\ FreeWaits >= 1 /\ (hasMsg => FreeSends >= 1) /\ FreeCalls >= 1
    /\ awaitNextMessage("raw", hasMsg)
    /\ UNCHANGED <<wsState, config, setup, epoch, queries, hs, noise, keepAlive>>

\* validateConnection() up to `await awaitNextMessage(init)`
ValidateConnection ==
    /\ hs.pc = "NotStarted"
    /\ FreeWaits >= 1 /\ FreeSends >= 2
    /\ awaitNextMessage("hello", TRUE)
    /\ hs' = IF ~isOpen
             THEN [hs EXCEPT !.pc = "Failed", !.err = "ConnectionClosed",
                             !.w = Len(waits) + 1]
             ELSE [hs EXCEPT !.pc = "HelloSent", !.w = Len(waits) + 1]
    /\ UNCHANGED <<wsState, config, setup, epoch, queries, noise, keepAlive>>

\* one firing of the interval set by startKeepAliveRequest
KeepAliveTick ==
    /\ keepAlive > 0
    /\ FreeSends >= 1
    /\ sends' = Append(sends, sendNode("keepalive"))
    /\ UNCHANGED <<wsState, config, setup, epoch, listeners, waits, queries,
                   hs, noise, keepAlive>>

\* ------------------------------------------------------------------ specification
TagIds == {queries[q].id : q \in DOMAIN queries}

Next ==
    \/ Open
    \/ \E a \in CloseArgs : Close(a)
    \/ \E a \in ErrorArgs : Error(a)
    \/ \E f \in RawFrames : Frame(f)
    \/ \E id \in TagIds : \E n \in Nodes(id) : Tagged(id, n)
    \/ \E s \in 1..MaxSends : SendDone(s)
    \/ \E s \in 1..MaxSends : SendFail(s)
    \/ \E s \in 1..MaxSends : SendTimeout(s)
    \/ \E w \in 1..MaxWaits : WaitTimeout(w)
    \/ Tick
    \/ \E idArg \in UserIds \cup {NoId} : \E t \in 0..MaxTimeout : Query(idArg, t)
    \/ SendNode
    \/ \E m \in BOOLEAN : AwaitNext(m)
    \/ ValidateConnection
    \/ KeepAliveTick

Spec == Init /\ [][Next]_vars

\* timers fire: the event loop runs every due timer and time passes
FairSpec ==
    /\ Spec
    /\ WF_vars(Tick)
    /\ \A s \in 1..MaxSends : WF_vars(SendTimeout(s))
    /\ \A w \in 1..MaxWaits : WF_vars(WaitTimeout(w))

\* makeSocket is called with a configuration
SetupInit ==
    /\ wsState = "unbuilt"
    /\ config \in [connectTimeoutMs : 1..MaxTimeout,
                   defaultQueryTimeoutMs : {MaxTimeout}]
    /\ setup \in {[pc |-> "start", given |-> cfg, mobile |-> cfg.mobile,
                   url |-> cfg.waWebSocketUrl,
                   ws |-> [client |-> NoSocket, url |-> NoUrl]] :
                      cfg \in SetupConfigs}
    /\ epoch = 1
    /\ listeners = {}
    /\ waits = <<>>
    /\ sends = <<>>
    /\ queries = <<>>
    /\ hs = [pc |-> "NotStarted", w |-> 0, s |-> 0, err |-> "none"]
    /\ noise = [processed |-> FALSE, finished |-> FALSE]
    /\ keepAlive = 0

\* the URL preparation, the transport selection and ws.connect()
MakeSocket ==
    /\ setup.pc = "start"
    /\ setup' = makeSocket(setup.given)
    /\ wsState' = "connecting"
    /\ UNCHANGED <<config, epoch, listeners, waits, sends, queries,
                   hs, noise, keepAlive>>

SetupNext == MakeSocket

SetupSpec == SetupInit /\ [][SetupNext]_vars

\* ------------------------------------------------------------------ query result
\* fault: query returns what its wait resolved with, unasserted
QueryOutcomeUnasserted(q) ==
    LET s == sends[queries[q].s]
        w == waits[queries[q].w]
    IN  IF s.state = "inflight" THEN [state |-> "pending", val |-> NoArg]
        ELSE IF s.state = "rejected" THEN [state |-> "rejected", val |-> Err(s.err)]
        ELSE IF w.state = "pending" THEN [state |-> "pending", val |-> NoArg]
        ELSE IF w.state = "rejected" THEN [state |-> "rejected", val |-> w.val]
        ELSE [state |-> "resolved", val |-> w.val]
\* how query(node, timeoutMs) has settled: `await sendNode(node)` first, then
\* `await wait`, then assertNodeErrorFree on a node
QueryOutcome(q) ==
    LET s == sends[queries[q].s]
        w == waits[queries[q].w]
    IN  IF s.state = "inflight" THEN [state |-> "pending", val |-> NoArg]
        ELSE IF s.state = "rejected" THEN [state |-> "rejected", val |-> Err(s.err)]
        ELSE IF w.state = "pending" THEN [state |-> "pending", val |-> NoArg]
        ELSE IF w.state = "rejected" THEN [state |-> "rejected", val |-> w.val]
        ELSE IF w.val.k = "errnode"
             THEN [state |-> "rejected", val |-> Val("ProtocolError", w.val.id)]
             ELSE [state |-> "resolved", val |-> w.val]

Pending(W) == {w \in DOMAIN W : W[w].state = "pending"}
TagWaits(W) == {w \in DOMAIN W : W[w].kind = "tag"}
RawWaits(W) == {w \in DOMAIN W : W[w].kind = "raw"}

\* ------------------------------------------------------------------ claims
IsGenerated(q) == q.gen
\* C1: the tags query generates are <prefix><counter> with one prefix, the
\* counter of the i-th tag issued is i (so it starts at 1, grows by exactly 1
\* and never repeats or resets), whatever else has happened in between.
C1_TagsSequential ==
    LET gen == SelectSeq(queries, IsGenerated)
    IN  /\ \A i \in DOMAIN gen : gen[i].id = [p |-> uqTagId, n |-> i]
        /\ epoch = Len(gen) + 1
\* two tags were issued and other operations (a send, a close) were interleaved
C1_Witness ==
    /\ Len(SelectSeq(queries, IsGenerated)) >= 2
    /\ wsState = "closed"
    /\ \E s \in DOMAIN sends : sends[s].state = "ok"

\* C2: a tagged wait only ever resolves with a response delivered for its own
\* tag and a query only ever returns a response carrying its own tag;
\* delivering the response of tag B resolves the waits on B with that response
\* (and with it the query on B, once its send has completed) and leaves every
\* pending wait on another tag exactly as it was.
C2_Correlation ==
    /\ [](\A q \in DOMAIN queries :
              QueryOutcome(q).state = "resolved"
                 => QueryOutcome(q).val.id = queries[q].id)
    /\ [][/\ \A w \in TagWaits(waits) :
                (waits[w].state = "pending" /\ waits'[w].state = "resolved")
                   => waits'[w].val.id = waits[w].id
          /\ \A id \in TagIds : \A n \in Nodes(id) :
                Tagged(id, n) =>
                   /\ \A w \in TagWaits(waits) \cap Pending(waits) :
                         IF waits[w].id = id
                         THEN waits'[w].state = "resolved" /\ waits'[w].val = n
                         ELSE waits'[w] = waits[w]
                   /\ \A q \in DOMAIN queries :
                         (/\ queries[q].id = id
                          /\ waits[queries[q].w].state = "pending"
                          /\ sends[queries[q].s].state = "ok"
                          /\ n.k = "node")
                            => QueryOutcome(q)' = [state |-> "resolved", val |-> n]]_vars
\* two queries with distinct tags: the later one has its response, the
\* earlier one is still waiting
C2_Witness ==
    \E a, b \in DOMAIN queries :
        /\ a < b /\ queries[a].id # queries[b].id
        /\ waits[queries[b].w].state = "resolved"
        /\ waits[queries[b].w].val.id = queries[b].id
        /\ waits[queries[a].w].state = "pending"
        /\ QueryOutcome(b).state = "resolved"
        /\ QueryOutcome(a).state = "pending"

ClosedClass == {"ConnectionClosed"} \cup {a.k : a \in CloseArgs \ {NoArg}}
\* C3: the step in which the transport closes rejects every pending wait,
\* tagged or next-raw, with a ConnectionClosed-class failure; waits that had
\* settled already are not settled again, and none is pending after the step.
C3_CloseRejectsAll ==
    [][(wsState # "closed" /\ wsState' = "closed") =>
          /\ DOMAIN waits' = DOMAIN waits
          /\ Pending(waits') = {}
          /\ \A w \in DOMAIN waits :
                IF waits[w].state = "pending"
                THEN /\ waits'[w].state = "rejected"
                     /\ waits'[w].val.k \in ClosedClass
                ELSE waits'[w] = waits[w]]_vars
\* a tagged wait and a next-raw wait were both pending when the transport
\* closed, and both were rejected by it
C3_Witness ==
    /\ wsState = "closed"
    /\ \E a \in TagWaits(waits) : \E b \in RawWaits(waits) :
          /\ waits[a].state = "rejected" /\ waits[a].val.k = "EOF"
          /\ waits[b].state = "rejected" /\ waits[b].val.k = "ConnectionClosed"
          /\ waits[b].timeout > 0
          /\ \A s \in DOMAIN sends : sends[s].state \in {"ok", "inflight"}

\* C4: a transport error event rejects every pending tagged wait in the
\* step that handles the event.
C4_ErrorRejectsTagged ==
    [][\A a \in ErrorArgs :
          Error(a) => \A w \in TagWaits(waits) \cap Pending(waits) :
                         waits'[w].state = "rejected"]_vars

ListenersOf(w) == {l \in listeners : l.w = w}
\* neither a response nor a close has settled wait w
NoReplyNoClose(w) == waits[w].state = "pending" \/ waits[w].val.k = "Timeout"
TimedOutClean(q) ==
    LET w == queries[q].w
    IN  /\ QueryOutcome(q) = [state |-> "rejected", val |-> Err("Timeout")]
        /\ waits[w].state = "rejected" /\ waits[w].val.k = "Timeout"
        /\ waits[w].timer = waits[w].timeout
        /\ ListenersOf(w) = {}
\* C5 as stated: a settled query that got neither a response nor a close was
\* rejected with Timeout by its tagged wait at the deadline, and no listener
\* of that wait is left.
C5_TimeoutAsStated ==
    \A q \in DOMAIN queries :
        (QueryOutcome(q).state # "pending" /\ NoReplyNoClose(queries[q].w))
           => TimedOutClean(q)
\* C5 (amended): a query whose send completed before its deadline and that got
\* neither a response nor a close is rejected with Timeout, its wait having
\* run for exactly the timeout, and none of the listeners of its wait is left
\* registered.
C5_TimeoutAfterSend ==
    \A q \in DOMAIN queries :
        (/\ sends[queries[q].s].state = "ok"
         /\ ~waits[queries[q].w].unhandled
         /\ QueryOutcome(q).state # "pending"
         /\ NoReplyNoClose(queries[q].w))
           => TimedOutClean(q)
\* a query on an open transport whose send completed and whose wait then
\* timed out
C5_Witness ==
    /\ isOpen
    /\ \E q \in DOMAIN queries :
          /\ sends[queries[q].s].state = "ok"
          /\ waits[queries[q].w].val.k = "Timeout"
          /\ ~waits[queries[q].w].unhandled
          /\ QueryOutcome(q).val.k = "Timeout"

HelloWait == waits[hs.w]
\* the server-hello wait failed, or what it delivered is malformed or is
\* refused by processHandshake
HelloFailed ==
    /\ hs.w # 0
    /\ \/ HelloWait.state = "rejected"
       \/ HelloWait.state = "resolved" /\ HelloWait.val.k \in {"malformed", "badKey"}
\* C6: finishInit is invoked only after a server-hello was received and
\* processHandshake accepted it; if the server-hello wait fails or the
\* server-hello is refused, validateConnection fails, finishInit is not
\* invoked, no client-finish is sent and no keep-alive timer is started.
C6_HandshakeOrdering ==
    /\ noise.finished =>
          /\ noise.processed
          /\ hs.pc = "Finished"
    /\ noise.processed =>
          HelloWait.state = "resolved" /\ HelloWait.val.k = "serverHello"
    /\ HelloFailed =>
          /\ hs.pc = "Failed"
          /\ ~noise.processed /\ ~noise.finished
          /\ \A s \in DOMAIN sends : sends[s].kind # "finish"
          /\ keepAlive = 0
\* the handshake received a server-hello that processHandshake refused
C6_Witness ==
    /\ hs.pc = "Failed" /\ hs.err = "HandshakeFailure"
    /\ HelloWait.state = "resolved" /\ HelloWait.val.k = "badKey"
    /\ ~noise.finished

\* C7: a sendNode or query call hands bytes to the transport only when the
\* handshake is Finished.
C7_NoAppFrameBeforeFinished ==
    [][\A s \in DOMAIN sends' \ DOMAIN sends :
          (sends'[s].kind = "app" /\ sends'[s].handed) => hs.pc = "Finished"]_vars

\* C8: a send started while the transport is not open is rejected at once
\* with ConnectionClosed and handed nothing to the transport, and a send that
\* was not handed over is never handed over later.
C8_ClosedSendFails ==
    [][/\ \A s \in DOMAIN sends' \ DOMAIN sends :
             ~isOpen => /\ sends'[s].state = "rejected"
                        /\ sends'[s].err = "ConnectionClosed"
                        /\ ~sends'[s].handed
       /\ \A s \in DOMAIN sends :
             ~sends[s].handed => sends'[s] = sends[s]]_vars
\* a sendNode was refused before the transport opened, and the transport is
\* open now
C8_Witness ==
    /\ isOpen
    /\ \E s \in DOMAIN sends :
          /\ sends[s].kind = "app" /\ ~sends[s].handed
          /\ sends[s].state = "rejected" /\ sends[s].err = "ConnectionClosed"

HandedKeepAlive == {s \in DOMAIN sends : sends[s].kind = "keepalive" /\ sends[s].handed}
\* C9: once the transport has closed, no step hands a keep-alive frame to it.
C9_NoKeepAliveAfterClose ==
    [][wsState = "closed" => HandedKeepAlive' = HandedKeepAlive]_vars
\* the keep-alive interval fired after the transport had closed
C9_Witness ==
    /\ wsState = "closed"
    /\ \E s \in DOMAIN sends : sends[s].kind = "keepalive" /\ ~sends[s].handed

\* no send is in flight, no wait is pending and no query is unsettled
Quiet ==
    /\ \A s \in DOMAIN sends : sends[s].state # "inflight"
    /\ \A w \in DOMAIN waits : waits[w].state # "pending"
    /\ \A q \in DOMAIN queries : QueryOutcome(q).state # "pending"
\* C10: with timers that fire, whatever the transport does or fails to do,
\* every send, wait and query that is outstanding at some moment has settled
\* at a later one (a settled call stays settled): again and again a moment
\* comes at which nothing is outstanding.
C10_EverythingSettles == []<>Quiet
\* the transport stayed open and silent: a send, a next-raw wait and a
\* tagged wait each ran into their deadline
C10_Witness ==
    /\ isOpen
    /\ \E s \in DOMAIN sends : sends[s].err = "Timeout"
    /\ \E w \in RawWaits(waits) : waits[w].val.k = "Timeout"
    /\ \E w \in TagWaits(waits) : waits[w].val.k = "Timeout"

\* a query whose send completed and whose wait resolved
Answered(q) ==
    /\ sends[queries[q].s].state = "ok"
    /\ waits[queries[q].w].state = "resolved"
\* C11: a query whose wait resolved with an error-flagged node fails with a
\* ProtocolError carrying that node and does not return it; a node that is
\* not error-flagged is returned unchanged.
C11_ErrorNodeFails ==
    \A q \in DOMAIN queries :
        Answered(q) =>
            LET n == waits[queries[q].w].val
            IN  IF n.k = "errnode"
                THEN QueryOutcome(q) =
                        [state |-> "rejected", val |-> Val("ProtocolError", n.id)]
                ELSE QueryOutcome(q) = [state |-> "resolved", val |-> n]
\* one query was answered with an error-flagged node, another with a plain one
C11_Witness ==
    \E a, b \in DOMAIN queries :
        /\ Answered(a) /\ waits[queries[a].w].val.k = "errnode"
        /\ QueryOutcome(a).val.k = "ProtocolError"
        /\ Answered(b) /\ waits[queries[b].w].val.k = "node"
        /\ QueryOutcome(b).state = "resolved"

\* makeSocket has built its own transport
Built == setup.pc = "connected" /\ setup.given.socket = NoSocket
\* the mobile flag is set or the configured endpoint is a tcp: address
MobileMode == setup.given.mobile \/ setup.given.waWebSocketUrl.protocol = "tcp:"
\* url names the same endpoint as the configured one
SameEndpoint(url, given) ==
    /\ url.protocol = given.protocol
    /\ url.host = given.host
    /\ url.port = given.port
AtMobileGateway(url) ==
    url.protocol = "tcp:" /\ url.host = "MOBILE_ENDPOINT" /\ url.port = "MOBILE_PORT"
\* C12 as stated: in mobile mode (flag set or tcp: endpoint) the transport is
\* the raw-stream client and it is built with the mobile gateway's host and
\* port whatever endpoint was configured.
C12_MobileGatewayAlways ==
    (Built /\ MobileMode) =>
        /\ setup.ws.client = "MobileSocketClient"
        /\ AtMobileGateway(setup.ws.url)
\* C12 (amended): in mobile mode the transport is the raw-stream client; it is
\* built with the mobile gateway's host and port when the configured endpoint
\* is not a tcp: address, and with the configured endpoint, unchanged, when it
\* is one.
C12_MobileGatewayUnlessTcp ==
    (Built /\ MobileMode) =>
        /\ setup.ws.client = "MobileSocketClient"
        /\ IF setup.given.waWebSocketUrl.protocol = "tcp:"
           THEN /\ SameEndpoint(setup.ws.url, setup.given.waWebSocketUrl)
                /\ setup.ws.url.search = setup.given.waWebSocketUrl.search
           ELSE AtMobileGateway(setup.ws.url) /\ setup.ws.url.search = <<>>
\* the mobile flag was set with a wss: endpoint configured, and the transport
\* was built against the mobile gateway
C12_Witness ==
    /\ Built /\ setup.given.mobile
    /\ setup.given.waWebSocketUrl.protocol = "wss:"
    /\ setup.given.waWebSocketUrl.host # "MOBILE_ENDPOINT"
    /\ setup.ws.client = "MobileSocketClient"
    /\ AtMobileGateway(setup.ws.url)

HintParam == [k |-> "ED", v |-> [base64url |-> setup.given.routingInfo]]
HasHintParam(url) == \E i \in DOMAIN url.search : url.search[i].k = "ED"
\* no explicit transport, mobile flag unset, endpoint not a tcp: address
WebMode == Built /\ ~MobileMode
\* C18 as stated: in web mode a WebSocket client is built against the
\* configured URL, with the routing hint appended as a query parameter
\* exactly when the credentials carry one, whatever the URL's scheme; the hint
\* is never appended in mobile mode or without a hint.
C18_HintForEveryScheme ==
    /\ WebMode =>
          /\ setup.ws.client = "WebSocketClient"
          /\ SameEndpoint(setup.ws.url, setup.given.waWebSocketUrl)
          /\ setup.ws.url.search =
                IF setup.given.routingInfo # NoHint
                THEN Append(setup.given.waWebSocketUrl.search, HintParam)
                ELSE setup.given.waWebSocketUrl.search
    /\ (Built /\ (MobileMode \/ setup.given.routingInfo = NoHint)) =>
          ~HasHintParam(setup.ws.url)
\* C18 (amended): in web mode a WebSocket client is built against the
\* configured URL, with the routing hint appended (base64url, parameter ED)
\* exactly when the credentials carry one and the URL's scheme is wss:; the
\* hint is never appended in mobile mode or without a hint.
C18_HintForWss ==
    /\ WebMode =>
          /\ setup.ws.client = "WebSocketClient"
          /\ SameEndpoint(setup.ws.url, setup.given.waWebSocketUrl)
          /\ setup.ws.url.search =
                IF setup.given.routingInfo # NoHint
                   /\ setup.given.waWebSocketUrl.protocol = "wss:"
                THEN Append(setup.given.waWebSocketUrl.search, HintParam)
                ELSE setup.given.waWebSocketUrl.search
    /\ (Built /\ (MobileMode \/ setup.given.routingInfo = NoHint)) =>
          ~HasHintParam(setup.ws.url)
\* a wss: URL that already had a query parameter got the hint appended
C18_Witness ==
    /\ WebMode
    /\ setup.given.waWebSocketUrl.protocol = "wss:"
    /\ setup.given.waWebSocketUrl.search # <<>>
    /\ setup.given.routingInfo # NoHint
    /\ setup.ws.client = "WebSocketClient"
    /\ Len(setup.ws.url.search) = 2 /\ setup.ws.url.search[2] = HintParam

\* the listeners wait w put on the transport when it started
Registered(w) ==
    IF waits[w].kind = "tag" THEN waitForMessageOn({}, w, waits[w].id)
    ELSE awaitNextMessageOn({}, w)
\* C13: in every state the transport's listener table holds exactly the
\* listeners registered by the waits that are still pending: a wait that has
\* settled, by whatever path, has none of its listeners left.
C13_ListenersOfPending ==
    /\ listeners = UNION {Registered(w) : w \in Pending(waits)}
    /\ \A w \in DOMAIN waits : waits[w].state # "pending" => ListenersOf(w) = {}
\* a wait that had registered listeners has settled while another wait is
\* still pending with its listeners in place
C13_Witness ==
    \E a, b \in DOMAIN waits :
        /\ waits[a].state # "pending" /\ waits[a].timeout > 0
        /\ waits[a].kind = "raw" /\ waits[a].state = "rejected"
        /\ \E s \in DOMAIN sends : sends[s].w = a /\ sends[s].err = "SendFailure"
        /\ waits[b].state = "pending" /\ ListenersOf(b) # {}

\* the listener that resolves the wait a send belongs to: TAG:<id> for the
\* send of a query, frame for the payload of awaitNextMessage
ResponseListeners(S, Q, s) ==
    {On(TagEvent(Q[q].id), Q[q].w) : q \in {x \in DOMAIN Q : Q[x].s = s}}
       \cup (IF S[s].w # 0 THEN {On(Ev("frame", NoId), S[s].w)} ELSE {})
\* C14: when a task of query or awaitNextMessage has handed a request to the
\* transport, the listener for its response is registered by the end of that
\* task, so no response can be delivered before it; a response delivered
\* while the send is still in flight resolves the wait.
C14_RegisteredBeforeSend ==
    [][/\ \A s \in DOMAIN sends' \ DOMAIN sends :
             sends'[s].handed => ResponseListeners(sends', queries', s) \subseteq listeners'
       /\ \A q \in DOMAIN queries : \A n \in Nodes(queries[q].id) :
             (/\ Tagged(queries[q].id, n)
              /\ sends[queries[q].s].state = "inflight"
              /\ waits[queries[q].w].state = "pending")
                => /\ waits'[queries[q].w].state = "resolved"
                   /\ waits'[queries[q].w].val = n
       /\ \A f \in RawFrames : \A s \in DOMAIN sends :
             (/\ Frame(f)
              /\ sends[s].w # 0 /\ sends[s].state = "inflight"
              /\ waits[sends[s].w].state = "pending")
                => /\ waits'[sends[s].w].state = "resolved"
                   /\ waits'[sends[s].w].val = f]_vars
\* a query and an awaitNextMessage both got their response while their sends
\* were still in flight
C14_Witness ==
    /\ \E q \in DOMAIN queries :
          /\ sends[queries[q].s].state = "inflight"
          /\ waits[queries[q].w].state = "resolved"
    /\ \E s \in DOMAIN sends :
          /\ sends[s].w # 0 /\ sends[s].state = "inflight"
          /\ waits[sends[s].w].state = "resolved"

KeepAliveSends == {s \in DOMAIN sends : sends[s].kind = "keepalive"}
\* C15: the keep-alive interval exists only once finishInit has been invoked
\* and the handshake is Finished, it is started at most once, and no
\* keep-alive tick has fired in any earlier handshake state.
C15_KeepAliveAfterFinish ==
    /\ keepAlive \in {0, 1}
    /\ keepAlive > 0 => (noise.finished /\ hs.pc = "Finished")
    /\ hs.pc = "Finished" => keepAlive = 1
    /\ KeepAliveSends # {} => (hs.pc = "Finished" /\ keepAlive = 1)
\* the handshake finished, the interval was started and a tick has sent a
\* keep-alive frame
C15_Witness ==
    /\ hs.pc = "Finished" /\ noise.finished /\ keepAlive = 1
    /\ \E s \in KeepAliveSends : sends[s].handed

\* C16: once the transport has closed, the keep-alive interval is no longer
\* armed.
C16_TimerCancelledOnClose == wsState = "closed" => keepAlive = 0

\* promises that were rejected with no handler attached: the promise a
\* keep-alive tick gets from sendNode and drops, and a tagged wait that its
\* query was not (or not yet) awaiting
UnhandledRejections ==
    {[of |-> "send", i |-> s] : s \in {x \in KeepAliveSends : sends[x].state = "rejected"}}
       \cup {[of |-> "wait", i |-> w] : w \in {x \in DOMAIN waits : waits[x].unhandled}}
\* C17: the failure of a keep-alive tick's send is caught by the tick: it is
\* never an unhandled rejection.
C17_TickFailureCaught ==
    \A s \in KeepAliveSends :
        sends[s].state = "rejected" => [of |-> "send", i |-> s] \notin UnhandledRejections

\* C19: once a query has returned, with a result or a failure, the tagged
\* wait it started is no longer pending and none of its listeners is left on
\* the transport.
C19_ReturnedQueryLeavesNoWait ==
    \A q \in DOMAIN queries :
        QueryOutcome(q).state # "pending" =>
            /\ waits[queries[q].w].state # "pending"
            /\ ListenersOf(queries[q].w) = {}

\* C20: when the payload send of an awaitNextMessage fails, its wait, if still
\* pending, is rejected in that step and its listeners are removed; an
\* awaitNextMessage on a transport that is not open fails with
\* ConnectionClosed, registers no listener and sends nothing.
C20_AwaitNextSendFailure ==
    [][/\ \A s \in DOMAIN sends :
             (/\ sends[s].w # 0
              /\ sends[s].state = "inflight" /\ sends'[s].state = "rejected"
              /\ waits[sends[s].w].state = "pending")
                => /\ waits'[sends[s].w].state = "rejected"
                   /\ {l \in listeners' : l.w = sends[s].w} = {}
       /\ \A w \in DOMAIN waits' \ DOMAIN waits :
             (waits'[w].kind = "raw" /\ ~isOpen)
                => /\ waits'[w].state = "rejected"
                   /\ waits'[w].val = Err("ConnectionClosed")
                   /\ listeners' = listeners
                   /\ sends' = sends]_vars
\* on an open transport the payload send of an awaitNextMessage ran into its
\* deadline and the wait was rejected with it, before the wait's own deadline
\* fired; and an awaitNextMessage was refused on a transport that is not open
C20_Witness ==
    /\ \E s \in DOMAIN sends :
          /\ sends[s].w # 0 /\ sends[s].state = "rejected" /\ sends[s].handed
          /\ waits[sends[s].w].state = "rejected"
          /\ waits[sends[s].w].val.k # "Timeout"
          /\ ListenersOf(sends[s].w) = {}
    /\ \E w \in RawWaits(waits) : waits[w].timeout = 0 /\ waits[w].state = "rejected"

====
